---- MODULE Spec2Model ----
(***************************************************************************)
(* A model of the JARVIS assistant: the Memory transcript store            *)
(* (jarvis/memory.py), the PromptController (jarvis/prompt_controller.py), *)
(* the GeminiEngine completion client (jarvis/gemini_engine.py) and the    *)
(* JarvisAssistant coordinator (jarvis/assistant.py).                      *)
(*                                                                         *)
(* A text is a sequence of tokens; a literal of the source is one token,   *)
(* string concatenation is \o and "".join is the concatenation of the      *)
(* parts.  A timestamp is the reading of a logical clock.                  *)
(***************************************************************************)
EXTENDS Integers, Sequences, FiniteSets, TLC

VARIABLES
    max_history,          \* Memory.max_history
    conversation,         \* Memory.conversation, when it is a list
    conv_is_list,         \* FALSE when Memory.conversation holds a non-list JSON value
    mem_status,           \* "none" before Memory(...), then "ok" or the exception it raised
    file,                 \* the content of Memory.memory_file on disk
    now,                  \* datetime.now(), a logical clock
    current_role,         \* PromptController.current_role
    conversation_started, \* JarvisAssistant._conversation_started
    pc,                   \* position of the call in progress ("idle" when none)
    frame,                \* arguments and locals of the call in progress
    gens,                 \* the respond_stream generator objects
    result,               \* what the last call returned, yielded or raised
    pre,                  \* history: the state when the current operation began
    obs,                  \* history: what the current operation has done so far
    added                 \* history: the messages appended since the store was last empty

memVars == <<max_history, conversation, conv_is_list, mem_status, file, now>>
asstVars == <<current_role, conversation_started, pc, frame, gens>>
histVars == <<result, pre, obs, added>>
vars == <<max_history, conversation, conv_is_list, mem_status, file, now,
          current_role, conversation_started, pc, frame, gens,
          result, pre, obs, added>>

----------------------------------------------------------------------------
(* Bounds of the model *)

\* the clock stops the run after this many appended messages
MaxAdds == 3
\* max_history is drawn from 0..MaxHistory
MaxHistory == 2
\* a provider stream delivers at most this many fragments
MaxChunks == 1

----------------------------------------------------------------------------
(* Texts *)

Min(a, b) == IF a < b THEN a ELSE b
Max(a, b) == IF a > b THEN a ELSE b

\* str.isspace of one character
IsSpace(c) == c \in {" ", "\t", "\n"}

RECURSIVE LStrip(_)
LStrip(s) == IF s # <<>> /\ IsSpace(Head(s)) THEN LStrip(Tail(s)) ELSE s

RECURSIVE RStrip(_)
RStrip(s) ==
    IF s # <<>> /\ IsSpace(s[Len(s)]) THEN RStrip(SubSeq(s, 1, Len(s) - 1)) ELSE s

\* str.strip()
Strip(s) == RStrip(LStrip(s))

\* "".join(parts)
RECURSIVE JoinEmpty(_)
JoinEmpty(parts) ==
    IF parts = <<>> THEN <<>> ELSE Head(parts) \o JoinEmpty(Tail(parts))

\* "\n".join(parts)
RECURSIVE JoinLines(_)
JoinLines(parts) ==
    IF parts = <<>> THEN <<>>
    ELSE IF Len(parts) = 1 THEN Head(parts)
    ELSE Head(parts) \o <<"\n">> \o JoinLines(Tail(parts))

\* Python's s[i:] for a list s and an integer i (a negative i counts from the end)
PySliceFrom(s, i) ==
    LET start == IF i < 0 THEN Max(Len(s) + i, 0) ELSE Min(i, Len(s))
    IN  SubSeq(s, start + 1, Len(s))

----------------------------------------------------------------------------
(* Memory: the transcript store (jarvis/memory.py) *)

\* the roles Memory.add accepts
ValidRoles == {"user", "assistant"}

\* the dict Memory.add appends
Message(role, message, timestamp) ==
    [role |-> role, message |-> message, timestamp |-> timestamp]

\* What the memory file can hold.  kind is
\*   "absent"        no such file
\*   "unreadable"    open() or read raises IOError (a directory, no permission)
\*   "undecodable"   bytes that are not UTF-8
\*   "notjson"       text that is not JSON (also a truncated, half-written file)
\*   "json_other"    valid JSON that is not an object (an array, null, a number)
\*   "json_nokey"    a JSON object without the key 'messages'
\*   "json_scalar"   a JSON object whose 'messages' is a number or null
\*   "json_object"   a JSON object whose 'messages' is the array messages
FileContent(kind, messages, last_updated) ==
    [kind |-> kind, messages |-> messages, last_updated |-> last_updated]

FileAbsent == FileContent("absent", <<>>, 0)

\* Memory._load_from_file: what the constructor leaves in self.conversation and
\* the exception that leaves it, if any
LoadFromFile(f) ==
    CASE f.kind = "absent" ->
           [raised |-> "none", conversation |-> <<>>, is_list |-> TRUE, warned |-> FALSE]
      [] f.kind \in {"unreadable", "notjson"} ->
           \* except (json.JSONDecodeError, IOError)
           [raised |-> "none", conversation |-> <<>>, is_list |-> TRUE, warned |-> TRUE]
      [] f.kind = "undecodable" ->
           [raised |-> "UnicodeDecodeError", conversation |-> <<>>, is_list |-> TRUE,
            warned |-> FALSE]
      [] f.kind = "json_other" ->
           \* data.get on a value that is no dict
           [raised |-> "AttributeError", conversation |-> <<>>, is_list |-> TRUE,
            warned |-> FALSE]
      [] f.kind = "json_nokey" ->
           [raised |-> "none", conversation |-> <<>>, is_list |-> TRUE, warned |-> FALSE]
      [] f.kind = "json_scalar" ->
           [raised |-> "none", conversation |-> <<>>, is_list |-> FALSE, warned |-> FALSE]
      [] OTHER ->
           [raised |-> "none", conversation |-> f.messages, is_list |-> TRUE,
            warned |-> FALSE]

\* the outcomes of opening and writing the file
IoOutcomes == {"ok", "open_fails", "write_fails"}

\* a faulty SaveToFile: the timestamps are not written
SaveToFileNoTimestamps(conv, f, io, t) ==
    IF io = "ok"
    THEN FileContent("json_object",
                     [i \in 1..Len(conv) |-> [conv[i] EXCEPT !.timestamp = 0]], t)
    ELSE f

\* Memory._save_to_file: the file after the call.  An IOError is caught: when
\* open() fails the file is as it was, when the write fails it is cut short.
SaveToFile(conv, f, io, t) ==
    CASE io = "ok" -> FileContent("json_object", conv, t)
      [] io = "open_fails" -> f
      [] OTHER -> FileContent("notjson", <<>>, 0)

\* Memory.add, lines 69-71: conversation[-max_history:] when it is too long
TrimHistory(conv, n) ==
    IF Len(conv) > n THEN PySliceFrom(conv, -n) ELSE conv

\* a faulty MemoryAdd: the message is appended before the role is checked
MemoryAddAppendsFirst(conv, is_list, n, f, t, role, message, io) ==
    IF role \notin ValidRoles
    THEN [raised |-> "ValueError",
          conversation |-> Append(conv, Message(role, message, t)),
          file |-> f, now |-> t, saves |-> 0, io_fails |-> 0]
    ELSE LET c == TrimHistory(Append(conv, Message(role, message, t)), n)
         IN  [raised |-> "none", conversation |-> c,
              file |-> SaveToFile(c, f, io, t), now |-> t + 1,
              saves |-> 1, io_fails |-> IF io = "ok" THEN 0 ELSE 1]

\* a faulty MemoryAdd: the IOError of a failed write is not caught
MemoryAddIoErrorPropagates(conv, is_list, n, f, t, role, message, io) ==
    IF role \notin ValidRoles
    THEN [raised |-> "ValueError", conversation |-> conv, file |-> f, now |-> t,
          saves |-> 0, io_fails |-> 0]
    ELSE LET c == TrimHistory(Append(conv, Message(role, message, t)), n)
         IN  [raised |-> IF io = "ok" THEN "none" ELSE "IOError", conversation |-> c,
              file |-> SaveToFile(c, f, io, t), now |-> t + 1,
              saves |-> 1, io_fails |-> IF io = "ok" THEN 0 ELSE 1]

\* Memory.add: the exception raised, and the store, the file and the clock after it
MemoryAdd(conv, is_list, n, f, t, role, message, io) ==
    IF role \notin ValidRoles
    THEN [raised |-> "ValueError", conversation |-> conv, file |-> f, now |-> t,
          saves |-> 0, io_fails |-> 0]
    ELSE IF ~is_list
    THEN \* self.conversation.append on a value that is no list
         [raised |-> "AttributeError", conversation |-> conv, file |-> f, now |-> t,
          saves |-> 0, io_fails |-> 0]
    ELSE LET c == TrimHistory(Append(conv, Message(role, message, t)), n)
         IN  [raised |-> "none", conversation |-> c,
              file |-> SaveToFile(c, f, io, t), now |-> t + 1,
              saves |-> 1, io_fails |-> IF io = "ok" THEN 0 ELSE 1]

\* a faulty MemoryClear: the emptied transcript is not written to the file
MemoryClearNoSave(f, t, io) ==
    [raised |-> "none", conversation |-> <<>>, file |-> f, now |-> t,
     saves |-> 0, io_fails |-> 0]

\* Memory.clear
MemoryClear(f, t, io) ==
    [raised |-> "none", conversation |-> <<>>,
     file |-> SaveToFile(<<>>, f, io, t), now |-> t,
     saves |-> 1, io_fails |-> IF io = "ok" THEN 0 ELSE 1]

\* Memory.get_statistics
GetStatistics(conv) ==
    [total_messages |-> Len(conv),
     user_messages |-> Cardinality({i \in 1..Len(conv) : conv[i].role = "user"}),
     assistant_messages |->
         Cardinality({i \in 1..Len(conv) : conv[i].role = "assistant"})]

\* Memory.get_history(last_n) for an integer last_n
GetHistory(conv, last_n) ==
    IF last_n > 0 THEN PySliceFrom(conv, -last_n) ELSE <<>>

\* a faulty GetHistoryObject: without last_n the store's own list is returned
GetHistoryObjectNoCopy(conv, given, last_n) ==
    IF ~given THEN [same |-> TRUE, list |-> conv]
    ELSE [same |-> FALSE, list |-> GetHistory(conv, last_n)]

\* Memory.get_history(last_n), last_n given or None: the list object returned.
\* same tells whether it is the list object the store itself holds:
\* self.conversation.copy(), a slice and the literal [] are all new lists.
GetHistoryObject(conv, given, last_n) ==
    IF ~given THEN [same |-> FALSE, list |-> conv]
    ELSE [same |-> FALSE, list |-> GetHistory(conv, last_n)]

\* the number of messages build_prompt asks the context for (last_n=10)
ContextDepth == 10

\* a faulty GetContextForPrompt: the label of get_formatted_history is used
GetContextForPromptJarvisLabel(conv, last_n) ==
    LET history == GetHistory(conv, last_n)
        line(msg) == <<IF msg.role = "user" THEN "User" ELSE "JARVIS", ": ">>
                     \o msg.message
    IN  IF history = <<>> THEN <<>>
        ELSE JoinLines(<<<<"Previous conversation:">>>>
                       \o [i \in 1..Len(history) |-> line(history[i])])

\* Memory.get_context_for_prompt(last_n)
GetContextForPrompt(conv, last_n) ==
    LET history == GetHistory(conv, last_n)
        line(msg) == <<IF msg.role = "user" THEN "User" ELSE "Assistant", ": ">>
                     \o msg.message
    IN  IF history = <<>> THEN <<>>
        ELSE JoinLines(<<<<"Previous conversation:">>>>
                       \o [i \in 1..Len(history) |-> line(history[i])])

----------------------------------------------------------------------------
(* PromptController (jarvis/prompt_controller.py) *)

\* PromptController.ROLES; a system prompt is one token
ROLES ==
    [general |-> [name |-> "JARVIS",
                  description |-> "General AI Assistant",
                  system_prompt |-> <<"You are JARVIS, an advanced AI assistant ...">>],
     tutor   |-> [name |-> "JARVIS (Tutor Mode)",
                  description |-> "Learning & Education Assistant",
                  system_prompt |-> <<"You are JARVIS in Tutor Mode ...">>],
     coder   |-> [name |-> "JARVIS (Coding Assistant)",
                  description |-> "Programming & Development Helper",
                  system_prompt |-> <<"You are JARVIS in Coding Assistant Mode ...">>],
     mentor  |-> [name |-> "JARVIS (Career Mentor)",
                  description |-> "Career & Professional Development Guide",
                  system_prompt |-> <<"You are JARVIS in Career Mentor Mode ...">>]]

RoleKeys == DOMAIN ROLES

\* str(e) of the ValueError of set_role
InvalidRoleMessage(role) ==
    <<"Invalid role: ", role, ". Must be one of ",
      "['general', 'tutor', 'coder', 'mentor']">>

\* a faulty SetRole: the role is assigned before it is checked
SetRoleAssignsFirst(cur, role) ==
    IF role \notin RoleKeys
    THEN [raised |-> "ValueError", current_role |-> role]
    ELSE [raised |-> "none", current_role |-> role]

\* PromptController.set_role
SetRole(cur, role) ==
    IF role \notin RoleKeys
    THEN [raised |-> "ValueError", current_role |-> cur]
    ELSE [raised |-> "none", current_role |-> role]

\* PromptController.get_role_info
GetRoleInfo(cur) ==
    [name |-> ROLES[cur].name, description |-> ROLES[cur].description]

\* a faulty BuildPrompt: the blank line after the context block is left out
BuildPromptNoBlankLine(cur, user_input, conv) ==
    LET context == GetContextForPrompt(conv, ContextDepth)
    IN  JoinLines(<<ROLES[cur].system_prompt, <<>>>>
                  \o (IF context # <<>> THEN <<context>> ELSE <<>>)
                  \o <<<<"User: ">> \o user_input, <<"Assistant:">>>>)

\* PromptController.build_prompt(user_input, memory, include_context=True)
BuildPrompt(cur, user_input, conv) ==
    LET context == GetContextForPrompt(conv, ContextDepth)
    IN  JoinLines(<<ROLES[cur].system_prompt, <<>>>>
                  \o (IF context # <<>> THEN <<context, <<>>>> ELSE <<>>)
                  \o <<<<"User: ">> \o user_input, <<"Assistant:">>>>)

\* PromptController.build_greeting
BuildGreeting(cur) ==
    CASE cur = "general" ->
           <<"Hello! I'm ", ROLES[cur].name,
             ", your personal AI assistant. How may I help you today?">>
      [] cur = "tutor" ->
           <<"Welcome! I'm ", ROLES[cur].name,
             ", ready to help you learn and grow. What would you like to explore today?">>
      [] cur = "coder" ->
           <<"Greetings! I'm ", ROLES[cur].name,
             ", your coding companion. What programming challenge can I help you with?">>
      [] OTHER ->
           <<"Hello! I'm ", ROLES[cur].name,
             ", here to support your professional journey. What career goals are you working on?">>

\* a faulty FormatErrorResponse: the detail is left out
FormatErrorResponseNoDetail(error_message) ==
    <<"I apologize, but I encountered an issue: ">>
    \o <<". Please try again or rephrase your request.">>

\* PromptController.format_error_response
FormatErrorResponse(error_message) ==
    <<"I apologize, but I encountered an issue: ">> \o error_message
    \o <<". Please try again or rephrase your request.">>

----------------------------------------------------------------------------
(* GeminiEngine (jarvis/gemini_engine.py) *)

\* str.lower of a token of a provider error
Lower(tok) ==
    CASE tok = "API key" -> "api key"
      [] tok = "Quota" -> "quota"
      [] tok = "SAFETY" -> "safety"
      [] OTHER -> tok

\* word in str(e).lower()
Mentions(msg, word) == \E i \in 1..Len(msg) : Lower(msg[i]) = word

\* What the provider does with one generate_content call: it returns a
\* response whose text is text, or raises an exception whose str is text.
ProviderTexts == {<<"r">>}
ProviderErrors ==
    {<<"API key", " not valid">>, <<"Quota", " exceeded">>, <<"blocked: ", "SAFETY">>,
     <<"timeout">>}
ProviderOutcomes ==
    {[kind |-> "text", text |-> t] : t \in ProviderTexts \cup {<<>>}} \cup
    {[kind |-> "error", text |-> e] : e \in ProviderErrors}

\* GeminiEngine.generate: the text returned or the RuntimeError raised
Generate(outcome) ==
    IF outcome.kind = "text"
    THEN IF outcome.text # <<>>
         THEN [raised |-> "none", value |-> outcome.text]
         ELSE [raised |-> "none",
               value |-> <<"I apologize, but I couldn't generate a response. Please try again.">>]
    ELSE IF Mentions(outcome.text, "api key")
    THEN [raised |-> "RuntimeError",
          value |-> <<"Invalid API key. Please check your configuration.">>]
    ELSE IF Mentions(outcome.text, "quota")
    THEN [raised |-> "RuntimeError",
          value |-> <<"API quota exceeded. Please try again later.">>]
    ELSE IF Mentions(outcome.text, "safety")
    THEN [raised |-> "none",
          value |-> <<"I cannot provide a response to that request due to safety guidelines.">>]
    ELSE [raised |-> "RuntimeError", value |-> <<"Generation failed: ">> \o outcome.text]

\* GeminiEngine.generate_stream, line 111: the fragment yielded in place of an
\* exception of the provider
StreamErrorFragment(error_text) == <<"Error in streaming: ">> \o error_text

----------------------------------------------------------------------------
(* History variables *)

\* a text returned or yielded, or the name of the exception raised
Returned(text) == [kind |-> "return", value |-> text]
Yielded(text) == [kind |-> "yield", value |-> text]
Raised(name) == [kind |-> "raise", value |-> <<name>>]
StopIteration == [kind |-> "stop", value |-> <<>>]
NoResult == [kind |-> "none", value |-> <<>>]

\* what engine.generate did, when it was called
NoEngine == [raised |-> "none", value |-> <<>>]

\* what an operation has done: the operation, its argument and its
\* save_to_memory flag, the calls of the completion client and what generate
\* returned or raised, the Memory.add calls, the _save_to_file calls and those
\* of them that failed
Obs(op, arg, engine_calls, adds, saves, io_fails) ==
    [op |-> op, g |-> 0, arg |-> arg, save |-> FALSE,
     engine_calls |-> engine_calls, engine |-> NoEngine, adds |-> adds,
     saves |-> saves, io_fails |-> io_fails]

\* the same for a step of generator g
ObsOf(g, op, arg, engine_calls, adds, saves, io_fails) ==
    [Obs(op, arg, engine_calls, adds, saves, io_fails) EXCEPT !.g = g]

\* obs after one more Memory.add call with the outcome out
ObsAfterAdd(role, message, out) ==
    [obs EXCEPT !.adds = Append(@, [role |-> role, message |-> message]),
                !.saves = @ + out.saves,
                !.io_fails = @ + out.io_fails]

Snapshot ==
    [conversation |-> conversation, conv_is_list |-> conv_is_list, file |-> file,
     current_role |-> current_role, conversation_started |-> conversation_started]

\* the messages appended since the store was last an empty list
AddedAfter(out, role, message, t) ==
    IF out.raised = "none"
    THEN [added EXCEPT !.msgs = Append(@, Message(role, message, t))]
    ELSE added

----------------------------------------------------------------------------
(* Calls in progress and generator objects *)

\* the arguments and locals of respond, or of the respond_stream generator
\* that is running
Frame(op, g, user_input, save, prompt, response) ==
    [op |-> op, g |-> g, user_input |-> user_input, save |-> save,
     prompt |-> prompt, response |-> response]

NoFrame == Frame("none", 0, <<>>, FALSE, <<>>, <<>>)

\* A respond_stream generator object.  st is where it is suspended:
\*   "free"        no such object
\*   "created"     respond_stream(...) was called, nothing has run yet
\*   "at_noinput"  at the yield of line 94
\*   "at_chunk"    at the yield chunk of line 111
\*   "at_error"    at the yield error_response of line 120
\*   "done"        it has returned
\* inner is the generate_stream generator: "new", "running", "failed" (suspended
\* at the yield of its except clause) or "ended".  client_failed and yielded
\* are history: whether the provider raised, and every fragment yielded.
Gen(st, user_input, save, prompt, full_response, inner, client_failed, yielded) ==
    [st |-> st, user_input |-> user_input, save |-> save, prompt |-> prompt,
     full_response |-> full_response, inner |-> inner,
     client_failed |-> client_failed, yielded |-> yielded]

FreeGen == Gen("free", <<>>, FALSE, <<>>, <<>>, "new", FALSE, <<>>)

----------------------------------------------------------------------------
(* The Memory class driven directly *)

\* the files a store is constructed over
OldMessages ==
    <<Message("user", <<"h">>, 0), Message("assistant", <<"r">>, 0),
      Message("user", <<"i">>, 0)>>

InitialFiles ==
    {FileAbsent} \cup
    {FileContent(k, <<>>, 0) :
        k \in {"unreadable", "undecodable", "notjson", "json_other", "json_nokey",
               "json_scalar"}} \cup
    {FileContent("json_object", SubSeq(OldMessages, 1, k), 0) : k \in 0..3}

\* the arguments of Memory.add
AddRoles == ValidRoles \cup {"system"}
MsgTexts == {<<"a">>, <<"b">>}

\* Memory.__init__ over the file f
Construct(f) ==
    LET ld == LoadFromFile(f)
    IN  /\ mem_status' = IF ld.raised = "none" THEN "ok" ELSE ld.raised
        /\ conversation' = ld.conversation
        /\ conv_is_list' = ld.is_list
        /\ added' = [valid |-> ld.raised = "none" /\ ld.is_list /\ ld.conversation = <<>>,
                     msgs |-> <<>>]
        /\ result' = IF ld.raised = "none" THEN Returned(<<>>) ELSE Raised(ld.raised)
        /\ obs' = Obs("init", <<>>, 0, <<>>, 0, 0)

MemInit ==
    /\ max_history \in 0..MaxHistory
    /\ file \in InitialFiles
    /\ now = 1
    /\ LET ld == LoadFromFile(file)
       IN  /\ mem_status = IF ld.raised = "none" THEN "ok" ELSE ld.raised
           /\ conversation = ld.conversation
           /\ conv_is_list = ld.is_list
           /\ added = [valid |-> ld.raised = "none" /\ ld.is_list /\ ld.conversation = <<>>,
                       msgs |-> <<>>]
           /\ result = IF ld.raised = "none" THEN Returned(<<>>) ELSE Raised(ld.raised)
    /\ obs = Obs("init", <<>>, 0, <<>>, 0, 0)
    /\ current_role = "general"
    /\ conversation_started = FALSE
    /\ pc = "idle"
    /\ frame = NoFrame
    /\ gens = <<>>
    /\ pre = [conversation |-> <<>>, conv_is_list |-> TRUE, file |-> file,
              current_role |-> "general", conversation_started |-> FALSE]

\* memory.add(role, message)
MemAdd(role, message, io) ==
    /\ mem_status = "ok"
    /\ now <= MaxAdds
    /\ LET out == MemoryAdd(conversation, conv_is_list, max_history, file, now,
                            role, message, io)
       IN  /\ conversation' = out.conversation
           /\ file' = out.file
           /\ now' = out.now
           /\ added' = AddedAfter(out, role, message, now)
           /\ result' = IF out.raised = "none" THEN Returned(<<>>) ELSE Raised(out.raised)
           /\ obs' = Obs("add", <<role>>, 0, <<>>, out.saves, out.io_fails)
    /\ pre' = Snapshot
    /\ UNCHANGED <<max_history, conv_is_list, mem_status>>
    /\ UNCHANGED asstVars

\* memory.clear()
MemClear(io) ==
    /\ mem_status = "ok"
    /\ LET out == MemoryClear(file, now, io)
       IN  /\ conversation' = out.conversation
           /\ file' = out.file
           /\ obs' = Obs("clear", <<>>, 0, <<>>, out.saves, out.io_fails)
    /\ conv_is_list' = TRUE
    /\ added' = [valid |-> TRUE, msgs |-> <<>>]
    /\ result' = Returned(<<>>)
    /\ pre' = Snapshot
    /\ UNCHANGED <<max_history, mem_status, now>>
    /\ UNCHANGED asstVars

\* Memory(memory_file, max_history) once more, over the file as it is now
MemReopen ==
    /\ obs.op # "init"
    /\ Construct(file)
    /\ pre' = Snapshot
    /\ UNCHANGED <<max_history, file, now>>
    /\ UNCHANGED asstVars

MemNext ==
    \/ \E role \in AddRoles, message \in MsgTexts, io \in IoOutcomes :
           MemAdd(role, message, io)
    \/ \E io \in IoOutcomes : MemClear(io)
    \/ MemReopen

SpecMemory == MemInit /\ [][MemNext]_vars

----------------------------------------------------------------------------
(* Properties of the Memory class *)

\* the last m elements of s
LastOf(s, m) == SubSeq(s, Len(s) - m + 1, Len(s))

\* C1: a store that starts empty holds, after every add, at most max_history
\* messages: exactly the most recent min(k, max_history) of the k messages
\* added so far, in their order.
C1_BoundedMostRecent ==
    (mem_status = "ok" /\ added.valid) =>
        /\ Len(conversation) <= max_history
        /\ conversation = LastOf(added.msgs, Min(Len(added.msgs), max_history))

\* C6: Memory.add with a role that is neither 'user' nor 'assistant' raises
\* ValueError, leaves the transcript as it was and does not write the file.
C6_InvalidRoleRejected ==
    (obs.op = "add" /\ obs.arg[1] \notin ValidRoles) =>
        /\ result = Raised("ValueError")
        /\ conversation = pre.conversation
        /\ conv_is_list = pre.conv_is_list
        /\ file = pre.file
        /\ obs.saves = 0

C6_Witness ==
    /\ obs.op = "add"
    /\ obs.arg = <<"system">>
    /\ result.kind = "raise"
    /\ Len(conversation) > 0

\* C8: Memory(...) over a file that is not valid JSON, that is valid JSON but
\* no object carrying a messages array, or that cannot be read or decoded,
\* raises nothing and starts with an empty transcript.
C8_LoadFailsSoft ==
    (obs.op = "init" /\ file.kind \in {"unreadable", "undecodable", "notjson",
                                       "json_other", "json_nokey", "json_scalar"}) =>
        /\ mem_status = "ok"
        /\ conv_is_list
        /\ conversation = <<>>

\* C10: when the last write of the file succeeded, a new Memory over the file
\* holds the transcript of this store: the same messages with the same roles,
\* texts and timestamps in the same order.
C10_RoundTrip ==
    (mem_status = "ok" /\ obs.op \in {"add", "clear"} /\ obs.saves = 1
        /\ obs.io_fails = 0) =>
        LET ld == LoadFromFile(file)
        IN  /\ ld.raised = "none"
            /\ ld.is_list = conv_is_list
            /\ ld.conversation = conversation

C10_Witness ==
    /\ obs.op = "add"
    /\ obs.saves = 1
    /\ obs.io_fails = 0
    /\ Len(added.msgs) > Len(conversation)
    /\ Len(conversation) >= 2
    /\ LoadFromFile(file).conversation = conversation

----------------------------------------------------------------------------
(* JarvisAssistant (jarvis/assistant.py) *)

\* the number of turns the clock lets a run save
MaxTurns == 2
\* the same where generators run
MaxStreamTurns == 1

\* the same where two generators are interleaved
MaxInterleavedTurns == 2

\* the clock allows one more saved turn
ClockAllowsTurn ==
    now + 1 <= 2 * (IF DOMAIN gens = {} THEN MaxTurns
                    ELSE IF Cardinality(DOMAIN gens) = 1 THEN MaxStreamTurns
                    ELSE MaxInterleavedTurns)

\* the files the application finds when it constructs its Memory
AppInitialFiles == {FileAbsent, FileContent("json_scalar", <<>>, 0)}

\* the arguments of respond and respond_stream
UserInputs == {<<>>, <<" ", "\n">>, <<" ", "q">>}

\* the arguments of change_role
RoleInputs == {"general", "coder", "pirate"}

\* the fragments and the failures of a provider stream
StreamFragments == {<<"x">>, <<"y">>}
StreamEvents ==
    {[kind |-> "chunk", text |-> t] : t \in StreamFragments} \cup
    {[kind |-> "error", text |-> <<"timeout">>], [kind |-> "end", text |-> <<>>]}

\* a faulty IsBlank: the input is not stripped
IsBlankNoStrip(user_input) == user_input = <<>>

\* not user_input or not user_input.strip()
IsBlank(user_input) == user_input = <<>> \/ Strip(user_input) = <<>>

NoInputMessage == <<"I didn't receive any input. Please tell me how I can help you.">>

\* JarvisAssistant(engine, PromptController("general"), Memory(f, n))
InitWith(n, f, ids) ==
    /\ max_history = n
    /\ file = f
    /\ now = 1
    /\ LET ld == LoadFromFile(file)
       IN  /\ mem_status = "ok"
           /\ conversation = ld.conversation
           /\ conv_is_list = ld.is_list
           /\ added = [valid |-> ld.is_list /\ ld.conversation = <<>>, msgs |-> <<>>]
    /\ current_role = "general"
    /\ conversation_started = FALSE
    /\ pc = "idle"
    /\ frame = NoFrame
    /\ gens = [g \in ids |-> FreeGen]
    /\ result = NoResult
    /\ obs = Obs("init", <<>>, 0, <<>>, 0, 0)
    /\ pre = [conversation |-> conversation, conv_is_list |-> conv_is_list,
              file |-> file, current_role |-> "general",
              conversation_started |-> FALSE]

Init == \E n \in 0..MaxHistory, f \in AppInitialFiles : InitWith(n, f, {})

\* the store after a Memory.add that returned out
MemoryBecomes(out, role, message) ==
    /\ conversation' = out.conversation
    /\ file' = out.file
    /\ now' = out.now
    /\ added' = AddedAfter(out, role, message, now)
    /\ UNCHANGED <<max_history, conv_is_list, mem_status>>

\* a faulty StartConversation: the greeting is stored in the transcript
StartConversationStoresGreeting ==
    /\ pc = "idle"
    /\ conversation_started' = TRUE
    /\ conversation' = Append(conversation,
                              Message("assistant", BuildGreeting(current_role), now))
    /\ result' = Returned(BuildGreeting(current_role))
    /\ obs' = Obs("start_conversation", <<>>, 0, <<>>, 0, 0)
    /\ pre' = Snapshot
    /\ UNCHANGED <<current_role, pc, frame, gens, added>>
    /\ UNCHANGED <<max_history, conv_is_list, mem_status, file, now>>

\* JarvisAssistant.start_conversation
StartConversation ==
    /\ pc = "idle"
    /\ conversation_started' = TRUE
    /\ result' = Returned(BuildGreeting(current_role))
    /\ obs' = Obs("start_conversation", <<>>, 0, <<>>, 0, 0)
    /\ pre' = Snapshot
    /\ UNCHANGED <<current_role, pc, frame, gens, added>>
    /\ UNCHANGED memVars

\* JarvisAssistant.change_role
ChangeRole(role) ==
    /\ pc = "idle"
    /\ LET out == SetRole(current_role, role)
           info == GetRoleInfo(out.current_role)
       IN  /\ current_role' = out.current_role
           /\ result' = IF out.raised = "none"
                        THEN Returned(<<"Role changed to: ", info.name, " - ",
                                        info.description>>)
                        ELSE Returned(<<"Error changing role: ">>
                                      \o InvalidRoleMessage(role))
    /\ obs' = Obs("change_role", <<role>>, 0, <<>>, 0, 0)
    /\ pre' = Snapshot
    /\ UNCHANGED <<conversation_started, pc, frame, gens, added>>
    /\ UNCHANGED memVars

\* a faulty ClearMemory: the role is reset to the default as well
ClearMemoryResetsRole(io) ==
    /\ pc = "idle"
    /\ LET out == MemoryClear(file, now, io)
       IN  /\ conversation' = out.conversation
           /\ file' = out.file
           /\ obs' = Obs("clear_memory", <<>>, 0, <<>>, out.saves, out.io_fails)
    /\ conv_is_list' = TRUE
    /\ current_role' = "general"
    /\ added' = [valid |-> TRUE, msgs |-> <<>>]
    /\ result' = Returned(<<"Conversation history cleared. Starting fresh!">>)
    /\ pre' = Snapshot
    /\ UNCHANGED <<max_history, mem_status, now>>
    /\ UNCHANGED <<conversation_started, pc, frame, gens>>

\* JarvisAssistant.clear_memory
ClearMemory(io) ==
    /\ pc = "idle"
    /\ LET out == MemoryClear(file, now, io)
       IN  /\ conversation' = out.conversation
           /\ file' = out.file
           /\ obs' = Obs("clear_memory", <<>>, 0, <<>>, out.saves, out.io_fails)
    /\ conv_is_list' = TRUE
    /\ added' = [valid |-> TRUE, msgs |-> <<>>]
    /\ result' = Returned(<<"Conversation history cleared. Starting fresh!">>)
    /\ pre' = Snapshot
    /\ UNCHANGED <<max_history, mem_status, now>>
    /\ UNCHANGED asstVars

\* a faulty Respond: the user message is in the transcript the prompt is
\* built from
RespondPromptSeesOwnInput(user_input, save) ==
    /\ pc = "idle"
    /\ IsBlank(user_input) \/ ~save \/ ClockAllowsTurn
    /\ pre' = Snapshot
    /\ obs' = [Obs("respond", user_input, 0, <<>>, 0, 0) EXCEPT !.save = save]
    /\ IF IsBlank(user_input)
       THEN /\ result' = Returned(NoInputMessage)
            /\ UNCHANGED <<pc, frame>>
       ELSE /\ pc' = "respond_generate"
            /\ frame' = Frame("respond", 0, user_input, save,
                              BuildPrompt(current_role, user_input,
                                          Append(conversation,
                                                 Message("user", user_input, now))),
                              <<>>)
            /\ result' = NoResult
    /\ UNCHANGED <<current_role, conversation_started, gens, added>>
    /\ UNCHANGED memVars

\* JarvisAssistant.respond, lines 52-61: the blank check and build_prompt
Respond(user_input, save) ==
    /\ pc = "idle"
    /\ IsBlank(user_input) \/ ~save \/ ClockAllowsTurn
    /\ pre' = Snapshot
    /\ obs' = [Obs("respond", user_input, 0, <<>>, 0, 0) EXCEPT !.save = save]
    /\ IF IsBlank(user_input)
       THEN /\ result' = Returned(NoInputMessage)
            /\ UNCHANGED <<pc, frame>>
       ELSE IF ~conv_is_list
       THEN \* get_history slices a value that is no list: except Exception
            /\ result' = Returned(FormatErrorResponse(<<"Unexpected error: ", "TypeError">>))
            /\ UNCHANGED <<pc, frame>>
       ELSE /\ pc' = "respond_generate"
            /\ frame' = Frame("respond", 0, user_input, save,
                              BuildPrompt(current_role, user_input, conversation), <<>>)
            /\ result' = NoResult
    /\ UNCHANGED <<current_role, conversation_started, gens, added>>
    /\ UNCHANGED memVars

\* JarvisAssistant.respond, line 64 and lines 71-80: engine.generate(prompt), and
\* the return when nothing is to be saved
RespondGenerate(outcome) ==
    /\ pc = "respond_generate"
    /\ LET gen == Generate(outcome)
       IN  IF gen.raised # "none"
           THEN /\ result' = Returned(FormatErrorResponse(gen.value))
                /\ pc' = "idle"
                /\ frame' = NoFrame
           ELSE IF frame.save
           THEN /\ pc' = "respond_add_user"
                /\ frame' = [frame EXCEPT !.response = gen.value]
                /\ UNCHANGED result
           ELSE /\ result' = Returned(gen.value)
                /\ pc' = "idle"
                /\ frame' = NoFrame
    /\ obs' = [obs EXCEPT !.engine_calls = @ + 1, !.engine = Generate(outcome)]
    /\ UNCHANGED <<current_role, conversation_started, gens, pre, added>>
    /\ UNCHANGED memVars

\* a faulty RespondAddUser: the response is stored under the role "user"
RespondAddUserStoresResponse(io) ==
    /\ pc = "respond_add_user"
    /\ LET out == MemoryAdd(conversation, conv_is_list, max_history, file, now,
                            "user", frame.response, io)
       IN  /\ MemoryBecomes(out, "user", frame.response)
           /\ obs' = ObsAfterAdd("user", frame.response, out)
           /\ pc' = "respond_add_assistant"
           /\ UNCHANGED <<frame, result>>
    /\ UNCHANGED <<current_role, conversation_started, gens, pre>>

\* JarvisAssistant.respond, line 68: memory.add("user", user_input)
RespondAddUser(io) ==
    /\ pc = "respond_add_user"
    /\ LET out == MemoryAdd(conversation, conv_is_list, max_history, file, now,
                            "user", frame.user_input, io)
       IN  /\ MemoryBecomes(out, "user", frame.user_input)
           /\ obs' = ObsAfterAdd("user", frame.user_input, out)
           /\ IF out.raised # "none"
              THEN /\ result' = Returned(FormatErrorResponse(
                                             <<"Unexpected error: ", out.raised>>))
                   /\ pc' = "idle"
                   /\ frame' = NoFrame
              ELSE /\ pc' = "respond_add_assistant"
                   /\ UNCHANGED <<frame, result>>
    /\ UNCHANGED <<current_role, conversation_started, gens, pre>>

\* JarvisAssistant.respond, lines 69-71: memory.add("assistant", response) and
\* return response
RespondAddAssistant(io) ==
    /\ pc = "respond_add_assistant"
    /\ LET out == MemoryAdd(conversation, conv_is_list, max_history, file, now,
                            "assistant", frame.response, io)
       IN  /\ MemoryBecomes(out, "assistant", frame.response)
           /\ obs' = ObsAfterAdd("assistant", frame.response, out)
           /\ result' = IF out.raised # "none"
                        THEN Returned(FormatErrorResponse(
                                          <<"Unexpected error: ", out.raised>>))
                        ELSE Returned(frame.response)
    /\ pc' = "idle"
    /\ frame' = NoFrame
    /\ UNCHANGED <<current_role, conversation_started, gens, pre>>

\* respond_stream(user_input, save_to_memory): a generator object is made,
\* none of its code runs
CallRespondStream(g, user_input, save) ==
    /\ pc = "idle"
    /\ gens[g].st \in {"free", "done"}
    /\ gens' = [gens EXCEPT ![g] = Gen("created", user_input, save, <<>>, <<>>,
                                       "new", FALSE, <<>>)]
    /\ result' = NoResult
    /\ obs' = ObsOf(g, "call_respond_stream", user_input, 0, <<>>, 0, 0)
    /\ pre' = Snapshot
    /\ UNCHANGED <<current_role, conversation_started, pc, frame, added>>
    /\ UNCHANGED memVars

\* The for statement of line 109 takes the next fragment of generate_stream.
\* ev is what the provider does: it delivers a chunk with a text (a chunk
\* without text is skipped by generate_stream and is not modelled), raises, or
\* ends.  gn is the generator with its prompt built.
StreamPull(g, gn, ev) ==
    /\ obs' = [ObsOf(g, "respond_stream", gn.user_input,
                     IF gn.inner = "new" THEN 1 ELSE 0, <<>>, 0, 0)
                   EXCEPT !.save = gn.save]
    /\ CASE ev.kind = "chunk" ->
              /\ gn.inner # "failed"
              /\ Len(gn.full_response) < MaxChunks
              /\ gens' = [gens EXCEPT ![g] =
                             [gn EXCEPT !.st = "at_chunk", !.inner = "running",
                                        !.full_response = Append(@, ev.text),
                                        !.yielded = Append(@, ev.text)]]
              /\ result' = Yielded(ev.text)
              /\ UNCHANGED <<pc, frame>>
         [] ev.kind = "error" ->
              \* generate_stream, lines 110-111: the exception becomes a fragment
              /\ gn.inner # "failed"
              /\ gens' = [gens EXCEPT ![g] =
                             [gn EXCEPT !.st = "at_chunk", !.inner = "failed",
                                        !.client_failed = TRUE,
                                        !.full_response =
                                            Append(@, StreamErrorFragment(ev.text)),
                                        !.yielded =
                                            Append(@, StreamErrorFragment(ev.text))]]
              /\ result' = Yielded(StreamErrorFragment(ev.text))
              /\ UNCHANGED <<pc, frame>>
         [] OTHER ->
              \* the stream is exhausted: lines 113-116
              IF gn.save
              THEN /\ ClockAllowsTurn
                   /\ gens' = [gens EXCEPT ![g] =
                                  [gn EXCEPT !.st = "running", !.inner = "ended"]]
                   /\ pc' = "stream_add_user"
                   /\ frame' = Frame("respond_stream", g, gn.user_input, gn.save,
                                     gn.prompt, <<>>)
                   /\ result' = NoResult
              ELSE /\ gens' = [gens EXCEPT ![g] =
                                  [gn EXCEPT !.st = "done", !.inner = "ended"]]
                   /\ result' = StopIteration
                   /\ UNCHANGED <<pc, frame>>

\* next(generator): respond_stream runs from where it is suspended to its next
\* yield, to its return, or to the first memory.add of lines 114-116
StreamNext(g, ev) ==
    /\ pc = "idle"
    /\ gens[g].st \in {"created", "at_noinput", "at_chunk", "at_error", "done"}
    /\ pre' = Snapshot
    /\ LET gn == gens[g]
       IN  CASE gn.st = "created" /\ IsBlank(gn.user_input) ->
                  /\ ev.kind = "end"
                  /\ gens' = [gens EXCEPT ![g] =
                                 [gn EXCEPT !.st = "at_noinput",
                                            !.yielded = Append(@, NoInputMessage)]]
                  /\ result' = Yielded(NoInputMessage)
                  /\ obs' = ObsOf(g, "respond_stream", gn.user_input, 0, <<>>, 0, 0)
                  /\ UNCHANGED <<pc, frame>>
             [] gn.st = "created" /\ ~IsBlank(gn.user_input) /\ ~conv_is_list ->
                  \* build_prompt raises: except Exception, line 118
                  /\ ev.kind = "end"
                  /\ gens' = [gens EXCEPT ![g] =
                                 [gn EXCEPT !.st = "at_error",
                                            !.yielded = Append(@,
                                                FormatErrorResponse(<<"TypeError">>))]]
                  /\ result' = Yielded(FormatErrorResponse(<<"TypeError">>))
                  /\ obs' = ObsOf(g, "respond_stream", gn.user_input, 0, <<>>, 0, 0)
                  /\ UNCHANGED <<pc, frame>>
             [] gn.st = "created" /\ ~IsBlank(gn.user_input) /\ conv_is_list ->
                  StreamPull(g, [gn EXCEPT !.prompt =
                                    BuildPrompt(current_role, gn.user_input,
                                                conversation)], ev)
             [] gn.st = "at_chunk" -> StreamPull(g, gn, ev)
             [] gn.st \in {"at_noinput", "at_error"} ->
                  /\ ev.kind = "end"
                  /\ gens' = [gens EXCEPT ![g] = [gn EXCEPT !.st = "done"]]
                  /\ result' = StopIteration
                  /\ obs' = ObsOf(g, "respond_stream", gn.user_input, 0, <<>>, 0, 0)
                  /\ UNCHANGED <<pc, frame>>
             [] OTHER ->
                  \* an exhausted generator raises StopIteration again
                  /\ ev.kind = "end"
                  /\ result' = StopIteration
                  /\ obs' = ObsOf(g, "respond_stream", gn.user_input, 0, <<>>, 0, 0)
                  /\ UNCHANGED <<pc, frame, gens>>
    /\ UNCHANGED <<current_role, conversation_started, added>>
    /\ UNCHANGED memVars

\* a faulty StreamAddUser: the user message is not stored
StreamAddUserOmitted(io) ==
    /\ pc = "stream_add_user"
    /\ pc' = "stream_add_assistant"
    /\ UNCHANGED <<frame, result, gens, obs, added>>
    /\ UNCHANGED <<current_role, conversation_started, pre>>
    /\ UNCHANGED memVars

\* JarvisAssistant.respond_stream, line 115: memory.add("user", user_input)
StreamAddUser(io) ==
    /\ pc = "stream_add_user"
    /\ LET g == frame.g
           out == MemoryAdd(conversation, conv_is_list, max_history, file, now,
                            "user", frame.user_input, io)
       IN  /\ MemoryBecomes(out, "user", frame.user_input)
           /\ obs' = ObsAfterAdd("user", frame.user_input, out)
           /\ IF out.raised # "none"
              THEN /\ result' = Yielded(FormatErrorResponse(<<out.raised>>))
                   /\ gens' = [gens EXCEPT ![g].st = "at_error",
                                           ![g].yielded = Append(@,
                                               FormatErrorResponse(<<out.raised>>))]
                   /\ pc' = "idle"
                   /\ frame' = NoFrame
              ELSE /\ pc' = "stream_add_assistant"
                   /\ UNCHANGED <<frame, result, gens>>
    /\ UNCHANGED <<current_role, conversation_started, pre>>

\* a faulty StreamAddAssistant: only the last fragment is stored
StreamAddAssistantLastChunk(io) ==
    /\ pc = "stream_add_assistant"
    /\ LET g == frame.g
           parts == gens[g].full_response
           text == IF parts = <<>> THEN <<>> ELSE parts[Len(parts)]
           out == MemoryAdd(conversation, conv_is_list, max_history, file, now,
                            "assistant", text, io)
       IN  /\ MemoryBecomes(out, "assistant", text)
           /\ obs' = ObsAfterAdd("assistant", text, out)
           /\ result' = StopIteration
           /\ gens' = [gens EXCEPT ![g].st = "done"]
    /\ pc' = "idle"
    /\ frame' = NoFrame
    /\ UNCHANGED <<current_role, conversation_started, pre>>

\* JarvisAssistant.respond_stream, line 116:
\* memory.add("assistant", "".join(full_response)), and the return
StreamAddAssistant(io) ==
    /\ pc = "stream_add_assistant"
    /\ LET g == frame.g
           text == JoinEmpty(gens[g].full_response)
           out == MemoryAdd(conversation, conv_is_list, max_history, file, now,
                            "assistant", text, io)
       IN  /\ MemoryBecomes(out, "assistant", text)
           /\ obs' = ObsAfterAdd("assistant", text, out)
           /\ IF out.raised # "none"
              THEN /\ result' = Yielded(FormatErrorResponse(<<out.raised>>))
                   /\ gens' = [gens EXCEPT ![g].st = "at_error",
                                           ![g].yielded = Append(@,
                                               FormatErrorResponse(<<out.raised>>))]
              ELSE /\ result' = StopIteration
                   /\ gens' = [gens EXCEPT ![g].st = "done"]
    /\ pc' = "idle"
    /\ frame' = NoFrame
    /\ UNCHANGED <<current_role, conversation_started, pre>>

\* JarvisAssistant.export_conversation(filename), filename naming a file other
\* than the memory file: the export file (not part of the state) is written.
\* The RuntimeError of a failed open() or write and the TypeError of a
\* transcript that is no list are caught and reported in the text returned.
ExportConversation(io) ==
    /\ pc = "idle"
    /\ result' = IF ~conv_is_list
                 THEN Returned(<<"Failed to export conversation: ", "TypeError">>)
                 ELSE IF io # "ok"
                 THEN Returned(<<"Failed to export conversation: ",
                                 "Failed to export conversation: ", "IOError">>)
                 ELSE Returned(<<"Conversation exported to: ", "filename">>)
    /\ obs' = Obs("export_conversation", <<>>, 0, <<>>, 0, 0)
    /\ pre' = Snapshot
    /\ UNCHANGED <<current_role, conversation_started, pc, frame, gens, added>>
    /\ UNCHANGED memVars

\* JarvisAssistant.health_check: engine.health_check() calls generate("Hello")
\* and reports "healthy" or, when generate raises, "unhealthy"; the statistics
\* of the memory (GetStatistics, a TypeError when the transcript is no list),
\* the role and the started flag are read and reported.
HealthCheck(outcome) ==
    /\ pc = "idle"
    /\ LET gen == Generate(outcome)
           info == GetRoleInfo(current_role)
       IN  /\ result' = IF ~conv_is_list
                        THEN Raised("TypeError")
                        ELSE Returned(<<IF gen.raised = "none" THEN "healthy"
                                        ELSE "unhealthy",
                                        info.name, info.description,
                                        IF conversation_started THEN "True" ELSE "False">>)
           /\ obs' = [Obs("health_check", <<>>, 1, <<>>, 0, 0) EXCEPT !.engine = gen]
    /\ pre' = Snapshot
    /\ UNCHANGED <<current_role, conversation_started, pc, frame, gens, added>>
    /\ UNCHANGED memVars

\* the assistant without its streaming variant
Next ==
    \/ StartConversation
    \/ \E role \in RoleInputs : ChangeRole(role)
    \/ \E io \in IoOutcomes : ClearMemory(io)
    \/ \E user_input \in UserInputs, save \in BOOLEAN : Respond(user_input, save)
    \/ \E outcome \in ProviderOutcomes : RespondGenerate(outcome)
    \/ \E io \in IoOutcomes : RespondAddUser(io)
    \/ \E io \in IoOutcomes : RespondAddAssistant(io)

Spec == Init /\ [][Next]_vars

\* respond and respond_stream under the default role, with one generator
\* object at a time (a new one takes the place of an exhausted one), over a
\* fresh store that is large enough to evict nothing and whose writes succeed
StreamInit == InitWith(2 * MaxStreamTurns, FileAbsent, {1})

StreamSpecOutcomes ==
    {[kind |-> "text", text |-> <<"r">>], [kind |-> "error", text |-> <<"timeout">>]}

StreamNextStep ==
    \/ ClearMemory("ok")
    \/ \E user_input \in UserInputs, save \in BOOLEAN : Respond(user_input, save)
    \/ \E outcome \in StreamSpecOutcomes : RespondGenerate(outcome)
    \/ RespondAddUser("ok")
    \/ RespondAddAssistant("ok")
    \/ \E g \in DOMAIN gens, user_input \in UserInputs, save \in BOOLEAN :
           CallRespondStream(g, user_input, save)
    \/ \E g \in DOMAIN gens, ev \in StreamEvents : StreamNext(g, ev)
    \/ StreamAddUser("ok")
    \/ StreamAddAssistant("ok")

SpecStream == StreamInit /\ [][StreamNextStep]_vars

\* Every operation of the assistant, with one generator object at a time, one
\* user input, over a fresh store whose writes succeed
SessionInput == <<" ", "q">>

SessionNext ==
    \/ StartConversation
    \/ \E role \in RoleInputs : ChangeRole(role)
    \/ ClearMemory("ok")
    \/ \E io \in {"ok", "open_fails"} : ExportConversation(io)
    \/ \E outcome \in StreamSpecOutcomes : HealthCheck(outcome)
    \/ Respond(SessionInput, TRUE)
    \/ \E outcome \in StreamSpecOutcomes : RespondGenerate(outcome)
    \/ RespondAddUser("ok")
    \/ RespondAddAssistant("ok")
    \/ \E g \in DOMAIN gens : CallRespondStream(g, SessionInput, TRUE)
    \/ \E g \in DOMAIN gens, ev \in StreamEvents : StreamNext(g, ev)
    \/ StreamAddUser("ok")
    \/ StreamAddAssistant("ok")

SpecSession == StreamInit /\ [][SessionNext]_vars

\* Two respond_stream generators of one assistant, resumed in any order and
\* interleaved with respond and clear_memory, over a fresh store that is large
\* enough to evict nothing and whose writes succeed.  Every call has its own
\* input and the provider answers each with its own text.
InterleaveInit == InitWith(2 * MaxInterleavedTurns, FileAbsent, {1, 2})

InterleaveRespondInput == <<"q0">>
InterleaveRespondOutcome == [kind |-> "text", text |-> <<"r0">>]
InterleaveInput(g) == IF g = 1 THEN <<"q1">> ELSE <<"q2">>
InterleaveEvents(g) ==
    {[kind |-> "chunk", text |-> IF g = 1 THEN <<"f1">> ELSE <<"f2">>],
     [kind |-> "end", text |-> <<>>]}

InterleaveNext ==
    \/ ClearMemory("ok")
    \/ Respond(InterleaveRespondInput, TRUE)
    \/ RespondGenerate(InterleaveRespondOutcome)
    \/ RespondAddUser("ok")
    \/ RespondAddAssistant("ok")
    \/ \E g \in DOMAIN gens : CallRespondStream(g, InterleaveInput(g), TRUE)
    \/ \E g \in DOMAIN gens : \E ev \in InterleaveEvents(g) : StreamNext(g, ev)
    \/ StreamAddUser("ok")
    \/ StreamAddAssistant("ok")

SpecInterleave == InterleaveInit /\ [][InterleaveNext]_vars

\* respond and change_role over a store constructed over a file of about
\* ContextDepth messages, each with its own text, with a capacity of
\* ContextDepth or one that evicts nothing, and with writes that succeed
LongTranscript(k) ==
    [i \in 1..k |-> Message(IF i % 2 = 1 THEN "user" ELSE "assistant",
                            <<"m", ToString(i)>>, 0)]

ContextFileLens == {0} \cup ((ContextDepth - 1) .. (ContextDepth + 1))

ContextInit ==
    \E n \in {ContextDepth, ContextDepth + 1 + 2 * MaxTurns}, k \in ContextFileLens :
        InitWith(n, FileContent("json_object", LongTranscript(k), 0), {})

ContextNext ==
    \/ \E role \in RoleInputs : ChangeRole(role)
    \/ \E save \in BOOLEAN : Respond(SessionInput, save)
    \/ \E outcome \in StreamSpecOutcomes : RespondGenerate(outcome)
    \/ RespondAddUser("ok")
    \/ RespondAddAssistant("ok")

SpecContext == ContextInit /\ [][ContextNext]_vars

----------------------------------------------------------------------------
(* Properties of respond, respond_stream and change_role *)

\* the text consists of whitespace only (the empty text does)
OnlyWhitespace(text) == \A i \in 1..Len(text) : text[i] \in {" ", "\t", "\n"}

\* role and text of the last k messages of conv
TailOf(conv, k) ==
    [i \in 1..k |-> [role |-> conv[Len(conv) - k + i].role,
                     message |-> conv[Len(conv) - k + i].message]]

\* how many of the two messages of a turn the store keeps (a max_history of 0
\* evicts nothing, C1)
KeptOfTurn == IF max_history = 0 THEN 2 ELSE Min(2, max_history)

\* the turn of the respond call that has just returned
TurnOf(o) ==
    <<[role |-> "user", message |-> o.arg],
      [role |-> "assistant", message |-> o.engine.value]>>

\* respond has returned after a generate that succeeded, with saving enabled
RespondedAndSaved ==
    /\ obs.op = "respond"
    /\ pc = "idle"
    /\ obs.engine_calls = 1
    /\ obs.engine.raised = "none"
    /\ obs.save

\* C2: when the provider fails in a respond_stream, the failure is yielded as
\* one more fragment and no Memory.add is made: neither the user turn nor a
\* partial assistant turn enters the transcript.
C2_FailedStreamNotSaved ==
    (obs.op = "respond_stream" /\ gens[obs.g].client_failed) =>
        /\ Len(gens[obs.g].yielded) > 0
        /\ gens[obs.g].yielded[Len(gens[obs.g].yielded)][1] = "Error in streaming: "
        /\ obs.adds = <<>>
        /\ conversation = pre.conversation
        /\ file = pre.file

\* C3: when generate fails for a non-blank input, respond returns the apology
\* with the failure detail, raises nothing, and the transcript and the file
\* are what they were before the call.
C3_FailedTurnNotSaved ==
    (obs.op = "respond" /\ obs.engine_calls = 1 /\ obs.engine.raised # "none") =>
        /\ pc = "idle"
        /\ result = Returned(<<"I apologize, but I encountered an issue: ">>
                             \o obs.engine.value
                             \o <<". Please try again or rephrase your request.">>)
        /\ obs.engine.value # <<>>
        /\ obs.adds = <<>>
        /\ obs.saves = 0
        /\ conversation = pre.conversation
        /\ file = pre.file

C3_Witness ==
    /\ obs.op = "respond"
    /\ obs.engine.raised = "RuntimeError"
    /\ obs.engine.value = <<"Generation failed: ", "timeout">>
    /\ result.kind = "return"
    /\ Len(conversation) >= 2

\* C4: when generate returns R for a non-blank input and saving is enabled,
\* respond makes exactly two Memory.add calls, ("user", input) and then
\* ("assistant", R), both after generate has returned, and returns R; the
\* transcript ends with the messages of the turn that max_history keeps.
C4_TurnSavedInOrder ==
    /\ (pc = "respond_generate") =>
           (obs.adds = <<>> /\ conversation = pre.conversation /\ file = pre.file)
    /\ (pc = "respond_add_assistant") =>
           (obs.engine_calls = 1 /\ obs.adds = <<[role |-> "user", message |-> obs.arg]>>)
    /\ RespondedAndSaved =>
           /\ result = Returned(obs.engine.value)
           /\ obs.adds = TurnOf(obs)
           /\ Len(conversation) >= KeptOfTurn
           /\ TailOf(conversation, KeptOfTurn) = LastOf(TurnOf(obs), KeptOfTurn)
           /\ (Len(pre.conversation) + 2 <= max_history) =>
                  SubSeq(conversation, 1, Len(conversation) - 2) = pre.conversation

C4_Witness ==
    /\ RespondedAndSaved
    /\ result = Returned(<<"r">>)
    /\ Len(pre.conversation) = 2
    /\ Len(conversation) = 2
    /\ max_history = 2
    /\ TailOf(conversation, 2) = TurnOf(obs)

\* C5: for an empty or whitespace-only input respond returns the no-input
\* message, respond_stream yields that one message and ends, the completion
\* client is not called, and the transcript, its statistics and the file are
\* unchanged.
C5_BlankInputShortCircuits ==
    /\ (obs.op = "respond" /\ OnlyWhitespace(obs.arg)) =>
           /\ pc = "idle"
           /\ result = Returned(<<"I didn't receive any input. Please tell me how I can help you.">>)
           /\ obs.engine_calls = 0
           /\ obs.adds = <<>>
           /\ obs.saves = 0
           /\ conversation = pre.conversation
           /\ GetStatistics(conversation) = GetStatistics(pre.conversation)
           /\ file = pre.file
    /\ (obs.op = "respond_stream" /\ OnlyWhitespace(obs.arg)) =>
           /\ pc = "idle"
           /\ gens[obs.g].yielded =
                  <<<<"I didn't receive any input. Please tell me how I can help you.">>>>
           /\ gens[obs.g].st \in {"at_noinput", "done"}
           /\ (gens[obs.g].st = "at_noinput") => result = Yielded(gens[obs.g].yielded[1])
           /\ (gens[obs.g].st = "done") => result = StopIteration
           /\ obs.engine_calls = 0
           /\ obs.adds = <<>>
           /\ obs.saves = 0
           /\ conversation = pre.conversation
           /\ GetStatistics(conversation) = GetStatistics(pre.conversation)
           /\ file = pre.file

C5_Witness ==
    /\ obs.op = "respond_stream"
    /\ obs.arg = <<" ", "\n">>
    /\ gens[obs.g].st = "done"
    /\ Len(conversation) >= 2

\* C7: change_role returns a message and raises nothing; a key of the catalog
\* becomes the active role, any other key leaves the active role as it was
\* and the message reports the error.
C7_ChangeRole ==
    (obs.op = "change_role") =>
        /\ result.kind = "return"
        /\ IF obs.arg[1] \in {"general", "tutor", "coder", "mentor"}
           THEN /\ current_role = obs.arg[1]
                /\ result.value[1] = "Role changed to: "
           ELSE /\ current_role = pre.current_role
                /\ result.value[1] = "Error changing role: "

C7_Witness ==
    /\ obs.op = "change_role"
    /\ obs.arg = <<"pirate">>
    /\ current_role = "coder"
    /\ result.value[1] = "Error changing role: "

C11_TurnPersistedAsUnit ==
    (file.kind = "json_object") =>
        \A i \in 1..Len(file.messages) :
            (file.messages[i].role = "user") =>
                /\ i < Len(file.messages)
                /\ file.messages[i + 1].role = "assistant"

----------------------------------------------------------------------------
(* The read operations of Memory and PromptController driven directly *)

\* the longest transcript the store is constructed over
QueryLen == 3

\* every sequence over S of length at most n
SeqsUpTo(S, n) == UNION {[1..k -> S] : k \in 0..n}

\* the files the store is constructed over: every transcript of at most
\* QueryLen messages, written by a store of that capacity
QueryMessages == {Message(r, t, 0) : r \in ValidRoles, t \in MsgTexts}
QueryFiles == {FileContent("json_object", m, 0) : m \in SeqsUpTo(QueryMessages, QueryLen)}

\* the values of last_n
LastNs == (0 - 1) .. (QueryLen + 1)

QueryInit == \E f \in QueryFiles : InitWith(QueryLen, f, {})

\* what a call that reads leaves unchanged
QueryFrame ==
    /\ pre' = Snapshot
    /\ UNCHANGED <<current_role, conversation_started, pc, frame, gens, added>>
    /\ UNCHANGED memVars

\* a list the call returned: a new list object, or the store's own list
ReturnedList(object) ==
    [kind |-> IF object.same THEN "same_list" ELSE "new_list", value |-> object.list]

\* memory.get_history() and memory.get_history(last_n)
QueryGetHistory(given, last_n) ==
    /\ pc = "idle"
    /\ result' = ReturnedList(GetHistoryObject(conversation, given, last_n))
    /\ obs' = Obs("get_history", IF given THEN <<last_n>> ELSE <<>>, 0, <<>>, 0, 0)
    /\ QueryFrame

\* The caller changes the list get_history has just returned: change is
\* "append" (list.append of one more message) or "pop" (list.pop()).  When the
\* list is the store's own list object, the store's transcript changes with it.
QueryModifyReturned(change) ==
    /\ pc = "idle"
    /\ obs.op = "get_history"
    /\ change = "pop" => result.value # <<>>
    /\ LET list == IF change = "append"
                   THEN Append(result.value, Message("user", <<"z">>, 0))
                   ELSE SubSeq(result.value, 1, Len(result.value) - 1)
       IN  /\ result' = [result EXCEPT !.value = list]
           /\ conversation' = IF result.kind = "same_list" THEN list ELSE conversation
    /\ obs' = Obs("modify_returned", <<change>>, 0, <<>>, 0, 0)
    /\ pre' = Snapshot
    /\ UNCHANGED <<max_history, conv_is_list, mem_status, file, now>>
    /\ UNCHANGED <<current_role, conversation_started, pc, frame, gens, added>>

\* memory.get_context_for_prompt(last_n)
QueryGetContextForPrompt(last_n) ==
    /\ pc = "idle"
    /\ result' = Returned(GetContextForPrompt(conversation, last_n))
    /\ obs' = Obs("get_context_for_prompt", <<last_n>>, 0, <<>>, 0, 0)
    /\ QueryFrame

\* prompt_controller.build_prompt(user_input, memory, include_context=True)
QueryBuildPrompt(user_input) ==
    /\ pc = "idle"
    /\ result' = Returned(BuildPrompt(current_role, user_input, conversation))
    /\ obs' = Obs("build_prompt", user_input, 0, <<>>, 0, 0)
    /\ QueryFrame

\* prompt_controller.build_greeting()
QueryBuildGreeting ==
    /\ pc = "idle"
    /\ result' = Returned(BuildGreeting(current_role))
    /\ obs' = Obs("build_greeting", <<>>, 0, <<>>, 0, 0)
    /\ QueryFrame

QueryNext ==
    \/ \E role \in RoleKeys : ChangeRole(role)
    \/ StartConversation
    \/ QueryBuildGreeting
    \/ \E given \in BOOLEAN, last_n \in LastNs : QueryGetHistory(given, last_n)
    \/ \E change \in {"append", "pop"} : QueryModifyReturned(change)
    \/ \E last_n \in LastNs : QueryGetContextForPrompt(last_n)
    \/ \E user_input \in UserInputs : QueryBuildPrompt(user_input)

SpecQuery == QueryInit /\ [][QueryNext]_vars

----------------------------------------------------------------------------
(* Properties of the read operations *)

\* the last n messages of conv, all of them when there are fewer, none when
\* n is not positive
LastMessages(conv, n) ==
    IF n <= 0 THEN <<>> ELSE LastOf(conv, Min(n, Len(conv)))

\* one line 'User: <text>' or 'Assistant: <text>' per message, each after a
\* line break
RECURSIVE ContextLines(_)
ContextLines(msgs) ==
    IF msgs = <<>> THEN <<>>
    ELSE <<"\n", IF Head(msgs).role = "user" THEN "User" ELSE "Assistant", ": ">>
         \o Head(msgs).message \o ContextLines(Tail(msgs))

\* the header line followed by the lines of msgs
ContextBlock(msgs) == <<"Previous conversation:">> \o ContextLines(msgs)

\* C12: build_prompt returns the system prompt of the active role, an empty
\* line, the context block and an empty line when the context block is not
\* empty, the line 'User: <user_input>' and the line 'Assistant:', joined by
\* line breaks; the last line is 'Assistant:'.
C12_PromptLayout ==
    (obs.op = "build_prompt") =>
        LET msgs == LastMessages(conversation, 10)
            context == IF msgs = <<>> THEN <<>> ELSE ContextBlock(msgs)
        IN  /\ result.kind = "return"
            /\ result.value =
                   ROLES[current_role].system_prompt \o <<"\n", "\n">>
                   \o (IF context # <<>> THEN context \o <<"\n", "\n">> ELSE <<>>)
                   \o <<"User: ">> \o obs.arg \o <<"\n", "Assistant:">>
            /\ result.value[Len(result.value)] = "Assistant:"
            /\ conversation = pre.conversation

C12_Witness ==
    /\ obs.op = "build_prompt"
    /\ obs.arg = <<" ", "q">>
    /\ current_role = "mentor"
    /\ Len(conversation) = 2
    /\ conversation[1].role = "assistant"
    /\ result.value[4] = "Previous conversation:"
    /\ result.value[Len(result.value)] = "Assistant:"

\* C13: get_history(last_n) returns the last min(last_n, length) messages in
\* transcript order when last_n > 0, all messages without last_n and the empty
\* list when last_n <= 0; it leaves the transcript as it was, and appending to
\* or removing from the returned list leaves the transcript as it was.
C13_GetHistory ==
    /\ (obs.op = "get_history") =>
           /\ conversation = pre.conversation
           /\ file = pre.file
           /\ result.value =
                  IF obs.arg = <<>> THEN conversation
                  ELSE IF obs.arg[1] > 0
                  THEN LastOf(conversation, Min(obs.arg[1], Len(conversation)))
                  ELSE <<>>
    /\ (obs.op = "modify_returned") =>
           /\ conversation = pre.conversation
           /\ file = pre.file

C13_Witness ==
    /\ obs.op = "modify_returned"
    /\ obs.arg = <<"append">>
    /\ Len(conversation) = 3
    /\ Len(result.value) = 4
    /\ SubSeq(result.value, 1, 3) = conversation

\* C14 as stated: get_context_for_prompt returns the empty text when last_n = 0
\* and when the transcript is empty, and in every other case the header line
\* followed by one line per message of the last last_n messages.
C14_ContextBlockAsStated ==
    (obs.op = "get_context_for_prompt") =>
        result = Returned(IF obs.arg[1] = 0 \/ conversation = <<>>
                          THEN <<>>
                          ELSE ContextBlock(LastMessages(conversation, obs.arg[1])))

\* C14, amended: get_context_for_prompt returns the empty text when
\* last_n <= 0 and when the transcript is empty; otherwise the header line
\* followed by one 'User: <text>' or 'Assistant: <text>' line per message of
\* the last min(last_n, length) messages, in transcript order.
C14_ContextBlock ==
    (obs.op = "get_context_for_prompt") =>
        /\ result = Returned(IF obs.arg[1] <= 0 \/ conversation = <<>>
                             THEN <<>>
                             ELSE ContextBlock(LastMessages(conversation, obs.arg[1])))
        /\ conversation = pre.conversation

C14_Witness ==
    /\ obs.op = "get_context_for_prompt"
    /\ obs.arg = <<2>>
    /\ Len(conversation) = 3
    /\ conversation[2].role = "assistant"
    /\ conversation[3].role = "user"
    /\ result.value = <<"Previous conversation:", "\n", "Assistant", ": ">>
                      \o conversation[2].message
                      \o <<"\n", "User", ": ">> \o conversation[3].message

----------------------------------------------------------------------------
(* Properties of clear, the greeting and the streamed fragments *)

NoMessages == [total_messages |-> 0, user_messages |-> 0, assistant_messages |-> 0]

\* C15 as stated: after clear() and after clear_memory(), whatever the state
\* before, the transcript is empty, the statistics are all 0 and the file has
\* been rewritten in the call with an empty messages array, so that a store
\* constructed over the file is empty.
C15_ClearAsStated ==
    (obs.op \in {"clear", "clear_memory"}) =>
        /\ conv_is_list
        /\ conversation = <<>>
        /\ GetStatistics(conversation) = NoMessages
        /\ file.kind = "json_object"
        /\ file.messages = <<>>
        /\ LoadFromFile(file).conversation = <<>>

\* C15, amended: after clear() and after clear_memory(), whatever the state
\* before, the transcript is empty and the statistics are all 0; one write of
\* the file is attempted in the call; when it succeeds the file holds an empty
\* messages array and a store constructed over it is empty, when it fails the
\* call still returns and the file is as it was before or cut short.
C15_Clear ==
    (obs.op \in {"clear", "clear_memory"}) =>
        /\ conv_is_list
        /\ conversation = <<>>
        /\ GetStatistics(conversation) = NoMessages
        /\ result.kind = "return"
        /\ obs.saves = 1
        /\ (obs.io_fails = 0) =>
               /\ file.kind = "json_object"
               /\ file.messages = <<>>
               /\ LoadFromFile(file).raised = "none"
               /\ LoadFromFile(file).is_list
               /\ LoadFromFile(file).conversation = <<>>
        /\ (obs.io_fails > 0) =>
               (file = pre.file \/ file.kind = "notjson")

C15_Witness ==
    /\ obs.op = "clear_memory"
    /\ obs.io_fails = 0
    /\ Len(pre.conversation) = 2
    /\ pre.file.kind = "json_object"
    /\ Len(pre.file.messages) = 2
    /\ conversation = <<>>
    /\ file.messages = <<>>

\* the calls that produce the greeting
GreetingOps == {"build_greeting", "start_conversation"}

\* C16 as stated: the greeting carries the name of the active role (for
\* 'coder', 'JARVIS (Coding Assistant)'), and after build_greeting and after
\* start_conversation the active role, the transcript and the started flag
\* are what they were before the call.
C16_GreetingAsStated ==
    (obs.op \in GreetingOps) =>
        /\ result.kind = "return"
        /\ (current_role = "coder") => result.value[2] = "JARVIS (Coding Assistant)"
        /\ current_role = pre.current_role
        /\ conversation = pre.conversation
        /\ file = pre.file
        /\ conversation_started = pre.conversation_started

\* what a greeting call returns and what it leaves alone
GreetingEffect ==
    (obs.op \in GreetingOps) =>
        /\ result.kind = "return"
        /\ Len(result.value) = 3
        /\ result.value[2] = ROLES[current_role].name
        /\ (current_role = "coder") => result.value[2] = "JARVIS (Coding Assistant)"
        /\ current_role = pre.current_role
        /\ conversation = pre.conversation
        /\ conv_is_list = pre.conv_is_list
        /\ file = pre.file
        /\ (obs.op = "build_greeting") =>
               conversation_started = pre.conversation_started
        /\ (obs.op = "start_conversation") => conversation_started

\* a greeting call directly after a greeting call returns the same text, and
\* the state after it is the state after the first
GreetingRepeats ==
    (obs.op \in GreetingOps /\ obs'.op \in GreetingOps) =>
        /\ result' = result
        /\ current_role' = current_role
        /\ conversation' = conversation
        /\ (obs.op = "start_conversation") =>
               conversation_started' = conversation_started

\* C16, amended: the greeting is deterministic (for 'coder' it contains
\* 'JARVIS (Coding Assistant)', repeated calls return the identical text);
\* build_greeting changes no state; start_conversation leaves the active role
\* and the transcript as they were and sets the started flag, so that after
\* any number of greeting calls the state is the one after the first call.
C16_Greeting == [](GreetingEffect) /\ [][GreetingRepeats]_vars

C16_Witness ==
    /\ obs.op = "start_conversation"
    /\ pre.conversation_started
    /\ conversation_started
    /\ current_role = "coder"
    /\ result.value[2] = "JARVIS (Coding Assistant)"
    /\ Len(conversation) = 3

\* the parts one after the other, in their order
RECURSIVE Concatenation(_)
Concatenation(parts) ==
    IF parts = <<>> THEN <<>>
    ELSE Concatenation(SubSeq(parts, 1, Len(parts) - 1)) \o parts[Len(parts)]

\* C17: respond_stream hands the caller the fragments of the completion
\* client in the order the client produced them, each once and each in the
\* step that took it from the client; the assistant message stored when the
\* stream is exhausted is the concatenation of the fragments in that order.
C17_FragmentsForwardedInOrder ==
    \A g \in DOMAIN gens :
        LET gn == gens[g]
        IN  (gn.st \in {"at_chunk", "running", "done"} /\ ~OnlyWhitespace(gn.user_input)) =>
                /\ gn.yielded = gn.full_response
                /\ (gn.st = "at_chunk" /\ obs.g = g /\ obs.op = "respond_stream") =>
                       result = Yielded(gn.yielded[Len(gn.yielded)])
                /\ (gn.st = "done" /\ gn.save /\ obs.g = g /\ obs.op = "respond_stream"
                        /\ obs.adds # <<>>) =>
                       /\ obs.adds = <<[role |-> "user", message |-> gn.user_input],
                                       [role |-> "assistant",
                                        message |-> Concatenation(gn.yielded)]>>
                       /\ Len(conversation) >= 2
                       /\ TailOf(conversation, 2) = obs.adds

C17_Witness ==
    /\ obs.op = "respond_stream"
    /\ obs.g = 1
    /\ gens[1].st = "done"
    /\ gens[1].yielded = <<<<"y">>, <<"Error in streaming: ", "timeout">>>>
    /\ Len(conversation) = 2
    /\ conversation[2].role = "assistant"
    /\ conversation[2].message = <<"y", "Error in streaming: ", "timeout">>

----------------------------------------------------------------------------
(* Properties of the session *)

Catalog == {"general", "tutor", "coder", "mentor"}

\* the active role is a key of the catalog; a change_role that names a key of
\* the catalog makes it the active role, after anything else the active role
\* is what it was when the operation began; change_role leaves the transcript
\* and the file as they were
RoleFollowsChangeRole ==
    /\ current_role \in Catalog
    /\ IF obs.op = "change_role" /\ obs.arg[1] \in Catalog
       THEN current_role = obs.arg[1]
       ELSE current_role = pre.current_role
    /\ (obs.op = "change_role") =>
           /\ conversation = pre.conversation
           /\ conv_is_list = pre.conv_is_list
           /\ file = pre.file

\* a step that alters the active role is a change_role that names the new role
RoleAlteredByChangeRoleOnly ==
    (current_role' # current_role) =>
        /\ obs'.op = "change_role"
        /\ obs'.arg = <<current_role'>>
        /\ conversation' = conversation

\* C18: in every state reached by change_role, respond, respond_stream,
\* clear_memory, export_conversation, health_check and start_conversation
\* calls the active role is one of the four catalog keys and is the key of
\* the latest change_role call that named a catalog key (the default
\* 'general' when there was none); no other operation alters it, and
\* change_role alters nothing in the transcript.
C18_RoleStateMachine == [](RoleFollowsChangeRole) /\ [][RoleAlteredByChangeRoleOnly]_vars

C18_Witness ==
    /\ obs.op = "respond_stream"
    /\ gens[1].st = "done"
    /\ gens[1].prompt[1] = ROLES["coder"].system_prompt[1]
    /\ current_role = "coder"
    /\ pre.current_role = "coder"
    /\ conversation_started
    /\ Len(conversation) = 2

----------------------------------------------------------------------------
(* Properties across restarts and of interleaved generators *)

\* C19: a Memory constructed with a positive max_history over a file that
\* holds a list of messages has at most max_history messages right after
\* construction, so the history, the statistics and the prompt context never
\* show more than max_history messages.
C19_CapacityAcrossRestarts ==
    (obs.op = "init" /\ mem_status = "ok" /\ conv_is_list /\ max_history >= 1) =>
        /\ Len(conversation) <= max_history
        /\ GetStatistics(conversation).total_messages <= max_history
        /\ Len(GetHistory(conversation, Len(conversation))) <= max_history

\* the user input of the call that the assistant text answers, where the
\* text tells (a stream that delivered nothing stores the empty text)
InputAnswered(text) ==
    CASE text = <<>> -> {<<"q1">>, <<"q2">>}
      [] text[1] = "r0" -> {<<"q0">>}
      [] text[1] = "f1" -> {<<"q1">>}
      [] text[1] = "f2" -> {<<"q2">>}
      [] OTHER -> {}

\* the two adds of a turn are in progress
BetweenTheAdds == pc \in {"respond_add_assistant", "stream_add_assistant"}

\* C20: when respond_stream generators are suspended between fragments while
\* respond, another respond_stream and clear_memory run, and nothing is
\* evicted, every assistant message of the transcript comes directly after
\* the user message of its own turn, appended directly before it, and no
\* user message is separated from its assistant message by another turn.
C20_TurnsStayAdjacent ==
    \A i \in 1..Len(conversation) :
        /\ (conversation[i].role = "assistant") =>
               /\ i > 1
               /\ conversation[i - 1].role = "user"
               /\ conversation[i - 1].timestamp + 1 = conversation[i].timestamp
               /\ conversation[i - 1].message \in InputAnswered(conversation[i].message)
        /\ (conversation[i].role = "user") =>
               IF i < Len(conversation)
               THEN conversation[i + 1].role = "assistant"
               ELSE BetweenTheAdds

C20_Witness ==
    /\ pc = "idle"
    /\ gens[1].st = "done"
    /\ gens[2].st = "at_chunk"
    /\ gens[1].prompt = BuildPrompt("general", <<"q1">>, <<>>)
    /\ gens[2].prompt = BuildPrompt("general", <<"q2">>, <<>>)
    /\ Len(conversation) = 4
    /\ conversation[1].message = <<"q0">>
    /\ conversation[2].message = <<"r0">>
    /\ conversation[3].message = <<"q1">>
    /\ conversation[4].message = <<"f1">>

----------------------------------------------------------------------------
(* Properties of the prompt of a turn *)

\* the prompt for the input user_input under the role role with the context
\* block of the messages msgs
PromptOver(role, msgs, user_input) ==
    ROLES[role].system_prompt \o <<"\n", "\n">>
    \o (IF msgs # <<>> THEN ContextBlock(msgs) \o <<"\n", "\n">> ELSE <<>>)
    \o <<"User: ">> \o user_input \o <<"\n", "Assistant:">>

\* C21: the prompt respond sends to the completion client is built from the
\* transcript as it was when the turn began: its context block renders the
\* last min(10, length) messages of that transcript, under the role active at
\* that moment; the user message of the turn enters the transcript only
\* after the client has returned.
C21_PromptFromPreTurnTranscript ==
    /\ (pc \in {"respond_generate", "respond_add_user", "respond_add_assistant"}) =>
           /\ frame.prompt = PromptOver(pre.current_role,
                                        LastMessages(pre.conversation, 10), obs.arg)
           /\ Len(LastMessages(pre.conversation, 10)) = Min(10, Len(pre.conversation))
           /\ current_role = pre.current_role
    /\ (pc = "respond_generate") =>
           /\ obs.engine_calls = 0
           /\ obs.adds = <<>>
           /\ conversation = pre.conversation
    /\ (pc = "respond_add_user") =>
           /\ obs.engine_calls = 1
           /\ obs.adds = <<>>
           /\ conversation = pre.conversation
    /\ (pc = "respond_add_assistant") =>
           /\ obs.engine_calls = 1
           /\ obs.adds = <<[role |-> "user", message |-> obs.arg]>>
           /\ TailOf(conversation, 1) = obs.adds

C21_Witness ==
    /\ pc = "respond_add_assistant"
    /\ current_role = "coder"
    /\ Len(pre.conversation) = 11
    /\ pre.conversation[10].message = <<" ", "q">>
    /\ pre.conversation[11].message = <<"r">>
    /\ frame.prompt[1] = ROLES["coder"].system_prompt[1]
    /\ frame.prompt[4] = "Previous conversation:"
    /\ SubSeq(frame.prompt, 5, 9) = <<"\n", "Assistant", ": ", "m", "2">>
    /\ Len(conversation) = 12

====
